---- MODULE Spec2Model ----
(***************************************************************************)
(* serialitm: the acquisition loop of main() and the line reassembly of    *)
(* handle_packet() in src/main.rs.                                         *)
(*                                                                         *)
(* Standard output is a sequence of items: a timestamp, a text byte, or a  *)
(* diagnostic.  The decoder (crate itm) and the poller (crate mio) are the *)
(* program's environment: the decoder is the queue of what its next        *)
(* read_packet calls will find, the poller the readiness accumulated since *)
(* the last poll (edge-triggered registration).                            *)
(***************************************************************************)
EXTENDS Integers, Sequences, FiniteSets, TLC

\* ---- bounds ----
MaxPayloadLen == 2      \* longest payload of a packet fed to handle_packet
MaxHandled == 2         \* packets fed to handle_packet in HandlerSpec
MaxArrivals == 3        \* items the transport delivers in Spec

\* ---- values ----
LF == 10
SP == 32
Bytes == {LF, 97, 195}  \* "\n", "a", and 0xC3, which is no UTF-8 text alone
Ports == {0, 31}
SERIAL_TOKEN == 0
Platforms == {"unix", "windows"}

VARIABLES
    platform,               \* cfg(unix) or cfg(windows)
    itm_port,               \* the itmport argument
    should_write_newline,   \* main's local, passed by &mut to handle_packet
    out,                    \* what has been printed to stdout
    decoder,                \* what the decoder's next read_packet calls find
    edge,                   \* readiness raised on the port since the last poll
    events,                 \* the events of the last poll not yet iterated
    pc,                     \* "poll", "events", "drain", "done"
    result,                 \* main's result once it has returned
    log,                    \* history: one entry per handle_packet call
    arrivals                \* items delivered by the transport so far

vars == <<platform, itm_port, should_write_newline, out, decoder, edge,
          events, pc, result, log, arrivals>>

\* ---- output items ----
TS == [t |-> "ts", b |-> <<>>]
Ch(c) == [t |-> "ch", b |-> <<c>>]
InvalidLine(payload) == [t |-> "invalid", b |-> payload]
OtherLine(p) == [t |-> "other", b |-> <<p.port>> \o p.payload]

RECURSIVE Chars(_)
Chars(s) == IF s = <<>> THEN <<>> ELSE <<Ch(Head(s))>> \o Chars(Tail(s))

\* ---- packets ----
RECURSIVE SeqsUpTo(_, _)
SeqsUpTo(S, n) ==
    IF n = 0 THEN {<<>>}
    ELSE LET shorter == SeqsUpTo(S, n - 1)
         IN shorter \cup {Append(s, x) : s \in shorter, x \in S}

Payloads == SeqsUpTo(Bytes, MaxPayloadLen) \ {<<>>}
Instrumentation(port, payload) ==
    [kind |-> "Instrumentation", port |-> port, payload |-> payload]
OtherPacket == [kind |-> "Other", port |-> 0, payload |-> <<>>]
Malformed == [kind |-> "Malformed", port |-> 0, payload |-> <<>>]
Packets == {Instrumentation(c, b) : c \in Ports, b \in Payloads} \cup {OtherPacket}
\* what the transport delivers in Spec: one-byte stimulus writes, other packets,
\* and bytes the decoder cannot parse
WireItems ==
    {Instrumentation(c, <<b>>) : c \in Ports, b \in Bytes} \cup {OtherPacket, Malformed}

\* ---- str::from_utf8 (main.rs line 54): is the payload well-formed UTF-8 ----
IsCont(b) == b >= 128 /\ b <= 191

RECURSIVE from_utf8(_)
from_utf8(bs) ==
    IF bs = <<>> THEN TRUE
    ELSE LET b == bs[1]
             n == Len(bs)
         IN IF b < 128 THEN from_utf8(Tail(bs))
            ELSE IF b >= 194 /\ b <= 223
                 THEN n >= 2 /\ IsCont(bs[2]) /\ from_utf8(SubSeq(bs, 3, n))
            ELSE IF b >= 224 /\ b <= 239
                 THEN /\ n >= 3
                      /\ IsCont(bs[2])
                      /\ IsCont(bs[3])
                      /\ (b = 224 => bs[2] >= 160)
                      /\ (b = 237 => bs[2] <= 159)
                      /\ from_utf8(SubSeq(bs, 4, n))
            ELSE IF b >= 240 /\ b <= 244
                 THEN /\ n >= 4
                      /\ IsCont(bs[2])
                      /\ IsCont(bs[3])
                      /\ IsCont(bs[4])
                      /\ (b = 240 => bs[2] >= 144)
                      /\ (b = 244 => bs[2] <= 143)
                      /\ from_utf8(SubSeq(bs, 5, n))
            ELSE FALSE

\* ---- s.split("\n") (main.rs line 57): the segments between line-feeds ----
RECURSIVE split(_)
split(s) ==
    IF \A k \in 1..Len(s) : s[k] # LF THEN <<s>>
    ELSE LET k == CHOOSE j \in 1..Len(s) :
                      s[j] = LF /\ \A m \in 1..(j - 1) : s[m] # LF
         IN <<SubSeq(s, 1, k - 1)>> \o split(SubSeq(s, k + 1, Len(s)))

\* variant: the flag is not cleared after the timestamp
line_step_keep_flag(i, line, swn, o) ==
    LET o1 == IF swn THEN o \o <<TS, Ch(SP)>> ELSE o
        o2 == o1 \o Chars(line)
    IN IF i > 0
       THEN [out |-> Append(o2, Ch(LF)), swn |-> TRUE]
       ELSE [out |-> o2, swn |-> swn]

\* variant: i >= 0 for i > 0, a line terminator after every segment
line_step_newline_always(i, line, swn, o) ==
    LET o1 == IF swn THEN o \o <<TS, Ch(SP)>> ELSE o
        o2 == o1 \o Chars(line)
    IN [out |-> Append(o2, Ch(LF)), swn |-> TRUE]

\* variant: the flag is not set again after the line terminator
line_step_no_rearm(i, line, swn, o) ==
    LET o1 == IF swn THEN o \o <<TS, Ch(SP)>> ELSE o
        swn1 == IF swn THEN FALSE ELSE swn
        o2 == o1 \o Chars(line)
    IN IF i > 0
       THEN [out |-> Append(o2, Ch(LF)), swn |-> swn1]
       ELSE [out |-> o2, swn |-> swn1]

\* variant: no timestamp before an empty segment
line_step_skip_empty(i, line, swn, o) ==
    LET stamp == swn /\ line # <<>>
        o1 == IF stamp THEN o \o <<TS, Ch(SP)>> ELSE o
        swn1 == IF stamp THEN FALSE ELSE swn
        o2 == o1 \o Chars(line)
    IN IF i > 0
       THEN [out |-> Append(o2, Ch(LF)), swn |-> TRUE]
       ELSE [out |-> o2, swn |-> swn1]

\* variant: the next line's timestamp is written right after the terminator
line_step_eager_stamp(i, line, swn, o) ==
    LET o1 == IF swn THEN o \o <<TS, Ch(SP)>> ELSE o
        swn1 == IF swn THEN FALSE ELSE swn
        o2 == o1 \o Chars(line)
    IN IF i > 0
       THEN [out |-> Append(o2, Ch(LF)) \o <<TS, Ch(SP)>>, swn |-> FALSE]
       ELSE [out |-> o2, swn |-> swn1]

\* ---- the body of the for loop, main.rs lines 58-71; i counts from 0 ----
line_step(i, line, swn, o) ==
    LET o1 == IF swn THEN o \o <<TS, Ch(SP)>> ELSE o
        swn1 == IF swn THEN FALSE ELSE swn
        o2 == o1 \o Chars(line)
    IN IF i > 0
       THEN [out |-> Append(o2, Ch(LF)), swn |-> TRUE]
       ELSE [out |-> o2, swn |-> swn1]

\* ---- for (i, line) in s.split("\n").enumerate(), from segment k ----
RECURSIVE write_lines(_, _, _, _)
write_lines(segs, k, swn, o) ==
    IF k > Len(segs) THEN [out |-> o, swn |-> swn]
    ELSE LET r == line_step(k - 1, segs[k], swn, o)
         IN write_lines(segs, k + 1, r.swn, r.out)

\* variant: the guard i.port() == itm_port is dropped
port_matches_any(p, port) == p.kind = "Instrumentation"

\* ---- the match guard of main.rs line 52 ----
port_matches(p, port) == p.kind = "Instrumentation" /\ p.port = port

\* variant: print! for println! in the diagnostic of an invalid payload
handle_packet_invalid_no_newline(p, port, swn, o) ==
    IF port_matches(p, port)
    THEN IF from_utf8(p.payload)
         THEN LET r == write_lines(split(p.payload), 1, swn, o)
              IN [out |-> r.out, swn |-> r.swn, path |-> "text", ret |-> "Ok"]
         ELSE [out |-> o \o <<InvalidLine(p.payload)>>, swn |-> swn,
               path |-> "invalid", ret |-> "Ok"]
    ELSE [out |-> o \o <<OtherLine(p), Ch(LF)>>, swn |-> swn,
          path |-> "other", ret |-> "Ok"]

\* variant: the flag is set after the line printed for a rejected packet
handle_packet_other_rearm(p, port, swn, o) ==
    IF port_matches(p, port)
    THEN IF from_utf8(p.payload)
         THEN LET r == write_lines(split(p.payload), 1, swn, o)
              IN [out |-> r.out, swn |-> r.swn, path |-> "text", ret |-> "Ok"]
         ELSE [out |-> o \o <<InvalidLine(p.payload), Ch(LF)>>, swn |-> swn,
               path |-> "invalid", ret |-> "Ok"]
    ELSE [out |-> o \o <<OtherLine(p), Ch(LF)>>, swn |-> TRUE,
          path |-> "other", ret |-> "Ok"]

\* variant: the flag is set after the diagnostic line of an invalid payload
handle_packet_invalid_rearm(p, port, swn, o) ==
    IF port_matches(p, port)
    THEN IF from_utf8(p.payload)
         THEN LET r == write_lines(split(p.payload), 1, swn, o)
              IN [out |-> r.out, swn |-> r.swn, path |-> "text", ret |-> "Ok"]
         ELSE [out |-> o \o <<InvalidLine(p.payload), Ch(LF)>>, swn |-> TRUE,
               path |-> "invalid", ret |-> "Ok"]
    ELSE [out |-> o \o <<OtherLine(p), Ch(LF)>>, swn |-> swn,
          path |-> "other", ret |-> "Ok"]

\* ---- handle_packet, main.rs lines 50-80 ----
handle_packet(p, port, swn, o) ==
    IF port_matches(p, port)
    THEN IF from_utf8(p.payload)
         THEN LET r == write_lines(split(p.payload), 1, swn, o)
              IN [out |-> r.out, swn |-> r.swn, path |-> "text", ret |-> "Ok"]
         ELSE [out |-> o \o <<InvalidLine(p.payload), Ch(LF)>>, swn |-> swn,
               path |-> "invalid", ret |-> "Ok"]
    ELSE [out |-> o \o <<OtherLine(p), Ch(LF)>>, swn |-> swn,
          path |-> "other", ret |-> "Ok"]

\* ---- history entry of one handle_packet call ----
LogEntry(p, swn, o, r) ==
    [pkt |-> p, pre |-> swn, post |-> r.swn, path |-> r.path, ret |-> r.ret,
     wrote |-> SubSeq(r.out, Len(o) + 1, Len(r.out))]

\* ---- ready_of_interest and is_closed, main.rs lines 17-35 ----
ready_of_interest(pf) ==
    IF pf = "unix" THEN {"readable", "hup", "error"} ELSE {"readable"}

is_closed(pf, state) ==
    IF pf = "unix" THEN {"hup", "error"} \subseteq state ELSE FALSE

\* ---- decoder.read_packet(), called at main.rs line 171 ----
read_packet(d) ==
    IF d = <<>> THEN [res |-> "NoDataAvailable", pkt |-> Malformed, rest |-> d]
    ELSE IF Head(d).kind = "Malformed"
         THEN [res |-> "DecodeError", pkt |-> Head(d), rest |-> Tail(d)]
         ELSE [res |-> "Ok", pkt |-> Head(d), rest |-> Tail(d)]

\* ---- state after construction: main.rs lines 131-150 ----
Init ==
    /\ platform \in Platforms
    /\ itm_port \in Ports
    /\ should_write_newline = TRUE
    /\ out = <<>>
    /\ decoder = <<>>
    /\ edge = {}
    /\ events = <<>>
    /\ pc = "poll"
    /\ result = "running"
    /\ log = <<>>
    /\ arrivals = 0

\* ---- environment: bytes reach the port; the poller raises readable ----
Arrive(item) ==
    /\ pc # "done"
    /\ arrivals < MaxArrivals
    /\ arrivals' = arrivals + 1
    /\ decoder' = Append(decoder, item)
    /\ edge' = edge \cup {"readable"}
    /\ UNCHANGED <<platform, itm_port, should_write_newline, out, events, pc,
                   result, log>>

\* ---- environment: the port hangs up or fails; only flags of interest show ----
Hangup(flags) ==
    /\ pc # "done"
    /\ flags \cap ready_of_interest(platform) # {}
    /\ ~(flags \subseteq edge)
    /\ edge' = edge \cup (flags \cap ready_of_interest(platform))
    /\ UNCHANGED <<platform, itm_port, should_write_newline, out, decoder,
                   events, pc, result, log, arrivals>>

\* ---- poll.poll(&mut events, None) returns Ok: main.rs lines 152-158 ----
Poll ==
    /\ pc = "poll"
    /\ events' = IF edge = {} THEN <<>>
                 ELSE <<[token |-> SERIAL_TOKEN, readiness |-> edge]>>
    /\ edge' = {}
    /\ pc' = IF edge = {} THEN "poll" ELSE "events"
    /\ UNCHANGED <<platform, itm_port, should_write_newline, out, decoder,
                   result, log, arrivals>>

\* ---- poll.poll returns Err: main.rs line 153, map_err and ? ----
PollFail ==
    /\ pc = "poll"
    /\ pc' = "done"
    /\ result' = "PollError"
    /\ UNCHANGED <<platform, itm_port, should_write_newline, out, decoder,
                   edge, events, log, arrivals>>

\* ---- one turn of for event in events.iter(): main.rs lines 160-168 ----
NextEvent ==
    /\ pc = "events"
    /\ IF events = <<>>
       THEN pc' = "poll" /\ UNCHANGED <<events, result>>
       ELSE LET ready == Head(events).readiness
            IN /\ events' = Tail(events)
               /\ IF is_closed(platform, ready)
                  THEN pc' = "done" /\ result' = "PortClosed"
                  ELSE /\ pc' = IF "readable" \in ready THEN "drain" ELSE "events"
                       /\ UNCHANGED result
    /\ UNCHANGED <<platform, itm_port, should_write_newline, out, decoder,
                   edge, log, arrivals>>

\* variant: the loop does not leave the drain when read_packet returns Err
DrainStep_spin ==
    /\ pc = "drain"
    /\ LET rd == read_packet(decoder)
       IN /\ decoder' = rd.rest
          /\ pc' = "drain"
          /\ IF rd.res = "Ok"
             THEN LET r == handle_packet(rd.pkt, itm_port, should_write_newline, out)
                  IN /\ out' = r.out
                     /\ should_write_newline' = r.swn
                     /\ log' = Append(log, LogEntry(rd.pkt, should_write_newline, out, r))
             ELSE UNCHANGED <<out, should_write_newline, log>>
    /\ UNCHANGED <<platform, itm_port, edge, events, result, arrivals>>

\* variant: a decode error is propagated with ? instead of ending the drain
DrainStep_fatal_decode ==
    /\ pc = "drain"
    /\ LET rd == read_packet(decoder)
       IN /\ decoder' = rd.rest
          /\ IF rd.res = "Ok"
             THEN LET r == handle_packet(rd.pkt, itm_port, should_write_newline, out)
                  IN /\ out' = r.out
                     /\ should_write_newline' = r.swn
                     /\ log' = Append(log, LogEntry(rd.pkt, should_write_newline, out, r))
                     /\ pc' = "drain"
                     /\ UNCHANGED result
             ELSE /\ IF rd.res = "DecodeError"
                     THEN pc' = "done" /\ result' = "StdError"
                     ELSE pc' = "events" /\ UNCHANGED result
                  /\ UNCHANGED <<out, should_write_newline, log>>
    /\ UNCHANGED <<platform, itm_port, edge, events, arrivals>>

\* ---- one turn of while let Ok(p) = decoder.read_packet(): lines 171-173 ----
DrainStep ==
    /\ pc = "drain"
    /\ LET rd == read_packet(decoder)
       IN /\ decoder' = rd.rest
          /\ IF rd.res = "Ok"
             THEN LET r == handle_packet(rd.pkt, itm_port, should_write_newline, out)
                  IN /\ out' = r.out
                     /\ should_write_newline' = r.swn
                     /\ log' = Append(log, LogEntry(rd.pkt, should_write_newline, out, r))
                     /\ pc' = "drain"
             ELSE /\ pc' = "events"
                  /\ UNCHANGED <<out, should_write_newline, log>>
    /\ UNCHANGED <<platform, itm_port, edge, events, result, arrivals>>

Next ==
    \/ \E item \in WireItems : Arrive(item)
    \/ \E flags \in {{"hup"}, {"error"}, {"hup", "error"}} : Hangup(flags)
    \/ Poll
    \/ PollFail
    \/ NextEvent
    \/ DrainStep

Spec == Init /\ [][Next]_vars

\* the single thread keeps running: a drain or an event iteration that can
\* take its next step takes it
\* the loop does not look into a payload: for the loop's progress the
\* transport delivers one text byte on either port, other packets and
\* undecodable bytes
ProgressItems ==
    {Instrumentation(c, <<97>>) : c \in Ports} \cup {OtherPacket, Malformed}

ProgressNext ==
    \/ \E item \in ProgressItems : Arrive(item)
    \/ \E flags \in {{"hup"}, {"error"}, {"hup", "error"}} : Hangup(flags)
    \/ Poll
    \/ PollFail
    \/ NextEvent
    \/ DrainStep

FairSpec ==
    Init /\ [][ProgressNext]_vars /\ WF_vars(DrainStep) /\ WF_vars(NextEvent)

\* ---- handle_packet on its own: any packet, in the state the last one left ----
Handle(p) ==
    /\ Len(log) < MaxHandled
    /\ LET r == handle_packet(p, itm_port, should_write_newline, out)
       IN /\ out' = r.out
          /\ should_write_newline' = r.swn
          /\ log' = Append(log, LogEntry(p, should_write_newline, out, r))
    /\ UNCHANGED <<platform, itm_port, decoder, edge, events, pc, result, arrivals>>

HandlerNext == \E p \in Packets : Handle(p)

HandlerSpec == Init /\ [][HandlerNext]_vars

\* ---- vocabulary of the properties ----
NoLF(s) == \A k \in 1..Len(s) : s[k] # LF
AllLF(s) == \A k \in 1..Len(s) : s[k] = LF
Accepted(e) == e.pkt.kind = "Instrumentation" /\ e.pkt.port = itm_port
IsText(e) == Accepted(e) /\ e.path = "text"
Stamp == <<TS, Ch(SP)>>

RECURSIVE Payload_concat(_)
Payload_concat(l) ==
    IF l = <<>> THEN <<>> ELSE Head(l).pkt.payload \o Payload_concat(Tail(l))

RECURSIVE Repeat(_, _)
Repeat(s, k) == IF k = 0 THEN <<>> ELSE s \o Repeat(s, k - 1)

\* the output with every timestamp and the space written with it removed
RECURSIVE StripStamps(_)
StripStamps(o) ==
    IF o = <<>> THEN <<>>
    ELSE IF Head(o) = TS THEN StripStamps(SubSeq(o, 3, Len(o)))
    ELSE <<Head(o)>> \o StripStamps(Tail(o))

Buffered(d) == {k \in 1..Len(d) : d[k].kind # "Malformed"}

\* C1: the loop never blocks in poll (no readiness pending) while a decodable
\* packet is still buffered in the decoder: every packet queued at a readable
\* event is dispatched before the next poll.
C1_ExhaustiveDrain == (pc = "poll" /\ edge = {}) => Buffered(decoder) = {}

\* C2: a decode error does not end the drain: the drain loop is left only when
\* the decoder reports that no data is available.
C2_DrainEndsOnlyOnNoData ==
    [][(pc = "drain" /\ pc' # "drain")
          => read_packet(decoder).res = "NoDataAvailable"]_vars

\* C3: when the loop takes an event that carries a closed flag (hang-up or
\* error), it ends with PortClosed, readable or not, packets pending or not,
\* and dispatches no packet.
C3_ClosedTerminates ==
    [][(/\ pc = "events"
        /\ events # <<>>
        /\ events' # events
        /\ Head(events).readiness \cap {"hup", "error"} # {})
          => (pc' = "done" /\ result' = "PortClosed" /\ log' = log)]_vars

\* C4: a handled packet takes the reassembly path (UTF-8 decoding onwards) if
\* and only if it is an Instrumentation packet on the configured channel.
C4_ChannelFilter ==
    \A k \in DOMAIN log :
        (log[k].path \in {"text", "invalid"})
            <=> (log[k].pkt.kind = "Instrumentation" /\ log[k].pkt.port = itm_port)

C4_Witness ==
    \E j, k \in DOMAIN log :
        /\ log[j].path = "text"
        /\ log[k].path = "other"
        /\ log[k].pkt.kind = "Instrumentation"

\* C5: from the initial state, accepted UTF-8 fragments without a line-feed
\* give one timestamp and then the fragments' text in order, nothing else;
\* the flag is false after every one of them.
C5_OneStampPerOpenLine ==
    (log # <<>> /\ \A k \in DOMAIN log : IsText(log[k]) /\ NoLF(log[k].pkt.payload))
        => /\ out = Stamp \o Chars(Payload_concat(log))
           /\ \A k \in DOMAIN log : log[k].post = FALSE
           /\ should_write_newline = FALSE

C5_Witness ==
    /\ Len(log) >= 2
    /\ \A k \in DOMAIN log : IsText(log[k]) /\ NoLF(log[k].pkt.payload)

\* C6: a fragment t1 without line-feed handled with the flag true, followed by
\* a fragment t2 + "\n", prints exactly one timestamp, t1, t2 and one line-feed.
C6_SplitLineOneStamp ==
    \A k \in 1..(Len(log) - 1) :
        LET a == log[k]
            b == log[k + 1]
            n == Len(b.pkt.payload)
        IN (/\ a.pre
            /\ IsText(a) /\ NoLF(a.pkt.payload)
            /\ IsText(b) /\ b.pkt.payload[n] = LF
            /\ NoLF(SubSeq(b.pkt.payload, 1, n - 1)))
              => a.wrote \o b.wrote
                   = Stamp \o Chars(a.pkt.payload)
                       \o Chars(SubSeq(b.pkt.payload, 1, n - 1)) \o <<Ch(LF)>>

C6_Witness ==
    /\ Len(log) = 2
    /\ log[1].pre /\ IsText(log[1]) /\ log[1].pkt.payload = <<97>>
    /\ IsText(log[2]) /\ log[2].pkt.payload = <<97, LF>>

\* C7: a fragment t + "\n" (t without line-feed) handled with the flag true
\* prints the timestamp, t and one line-feed, and leaves the flag true.
C7_WholeLine ==
    \A k \in DOMAIN log :
        LET e == log[k]
            n == Len(e.pkt.payload)
        IN (/\ e.pre
            /\ IsText(e) /\ e.pkt.payload[n] = LF
            /\ NoLF(SubSeq(e.pkt.payload, 1, n - 1)))
              => /\ e.wrote = Stamp \o Chars(SubSeq(e.pkt.payload, 1, n - 1)) \o <<Ch(LF)>>
                 /\ e.post = TRUE

C7_Witness ==
    \E k \in DOMAIN log :
        log[k].pre /\ IsText(log[k]) /\ log[k].pkt.payload = <<97, LF>>

\* C8: a fragment of k line-feeds handled with the flag true prints k times
\* a timestamp followed by a line-feed, and leaves the flag true.
C8_EmptyLines ==
    \A k \in DOMAIN log :
        LET e == log[k]
        IN (e.pre /\ IsText(e) /\ AllLF(e.pkt.payload))
              => /\ e.wrote = Repeat(Stamp \o <<Ch(LF)>>, Len(e.pkt.payload))
                 /\ e.post = TRUE

C8_Witness ==
    \E k \in DOMAIN log :
        log[k].pre /\ IsText(log[k]) /\ log[k].pkt.payload = <<LF, LF>>

\* C9: after accepted UTF-8 payloads only, the output without its timestamps
\* is the concatenation of the payloads: no byte lost, duplicated or moved.
C9_NoByteLostOrMoved ==
    (\A k \in DOMAIN log : IsText(log[k]))
        => StripStamps(out) = Chars(Payload_concat(log))

\* C10: a packet the filter rejects writes nothing, leaves the flag as it was
\* and returns success.
C10_RejectedNoEffect ==
    \A k \in DOMAIN log :
        ~Accepted(log[k])
            => /\ log[k].wrote = <<>>
               /\ log[k].post = log[k].pre
               /\ log[k].ret = "Ok"

\* the sink is at the start of a line: nothing written since the last terminator
AtLineStart(o) == o = <<>> \/ o[Len(o)] = Ch(LF)

\* C11: between packets, should_write_newline is true if and only if the
\* output is at the start of a line.
C11_FlagIffLineStart == should_write_newline <=> AtLineStart(out)

\* C12 as stated: the loop ends in no other way than with PortClosed.
C12_OnlyPortClosed == pc = "done" => result = "PortClosed"

\* C12: the loop ends only with PortClosed or, when poll itself fails, with
\* PollError; until then main has no result.  No decoder outcome and no packet
\* ends it.
C12_TerminalStates ==
    /\ pc = "done" => result \in {"PortClosed", "PollError"}
    /\ pc # "done" => result = "running"

C12_Witness == pc = "done" /\ result = "PollError" /\ log # <<>>

\* C13: handling an accepted payload that is not UTF-8 appends the diagnostic
\* line and nothing else (no timestamp), leaves should_write_newline as it
\* was, returns Ok, and the loop stays in the drain for the next packet.
C13_InvalidPayloadReported ==
    [][(/\ pc = "drain"
        /\ log' # log
        /\ read_packet(decoder).pkt.kind = "Instrumentation"
        /\ read_packet(decoder).pkt.port = itm_port
        /\ ~from_utf8(read_packet(decoder).pkt.payload))
          => /\ out' = out \o <<InvalidLine(read_packet(decoder).pkt.payload), Ch(LF)>>
             /\ should_write_newline' = should_write_newline
             /\ log'[Len(log')].ret = "Ok"
             /\ pc' = "drain"
             /\ result' = "running"]_vars

C13_Witness ==
    \E k \in 1..(Len(log) - 1) :
        /\ log[k].path = "invalid"
        /\ log[k].pre = FALSE
        /\ log[k + 1].path = "text"

\* what segments k.. of a payload give when each line-feed is replaced in place
\* by a line terminator and a fresh timestamp
RECURSIVE InPlace(_, _)
InPlace(segs, k) ==
    IF k > Len(segs) THEN <<>>
    ELSE <<Ch(LF)>> \o Stamp \o Chars(segs[k]) \o InPlace(segs, k + 1)

\* C14: for an accepted payload with text after its last line-feed, every
\* segment after the first is preceded by the line terminator and then a fresh
\* timestamp, and the flag is false afterwards ("a\nb" gives "<TS> a\n<TS> b").
C14_TerminatorThenStamp ==
    \A k \in DOMAIN log :
        LET e == log[k]
            segs == split(e.pkt.payload)
        IN (IsText(e) /\ Len(segs) > 1 /\ segs[Len(segs)] # <<>>)
              => /\ e.wrote = (IF e.pre THEN Stamp ELSE <<>>)
                                \o Chars(segs[1]) \o InPlace(segs, 2)
                 /\ e.post = FALSE

\* C15: where closed detection is supported (unix), an event taken by the loop
\* that carries hang-up alone, error alone, or both, ends it at once with
\* PortClosed.
C15_HupOrErrorFatal ==
    [][(/\ platform = "unix"
        /\ pc = "events"
        /\ events # <<>>
        /\ events' = Tail(events)
        /\ \E flags \in {{"hup"}, {"error"}, {"hup", "error"}} :
               Head(events).readiness \cap {"hup", "error"} = flags)
          => (pc' = "done" /\ result' = "PortClosed")]_vars

\* C16 as stated: a payload of one line-feed handled while a line is open
\* appends the terminator and a fresh timestamp, and leaves the flag false.
C16_LoneLineFeedStampsAtOnce ==
    \A k \in DOMAIN log :
        (IsText(log[k]) /\ log[k].pkt.payload = <<LF>> /\ ~log[k].pre)
            => /\ log[k].wrote = <<Ch(LF)>> \o Stamp
               /\ log[k].post = FALSE

\* C16: a payload of one line-feed handled while a line is open appends the
\* line terminator only and leaves the flag true; the timestamp of the new
\* line is written in front of the next accepted text.
C16_LoneLineFeedClosesLine ==
    \A k \in DOMAIN log :
        (IsText(log[k]) /\ log[k].pkt.payload = <<LF>> /\ ~log[k].pre)
            => /\ log[k].wrote = <<Ch(LF)>>
               /\ log[k].post = TRUE
               /\ \A m \in (k + 1)..Len(log) :
                      (IsText(log[m]) /\ \A j \in (k + 1)..(m - 1) : ~IsText(log[j]))
                          => SubSeq(log[m].wrote, 1, 2) = Stamp

C16_Witness ==
    /\ Len(log) = 3
    /\ IsText(log[1]) /\ log[1].pkt.payload = <<97>>
    /\ IsText(log[2]) /\ log[2].pkt.payload = <<LF>> /\ ~log[2].pre
    /\ IsText(log[3]) /\ log[3].pkt.payload = <<97>>

\* C17: should_write_newline changes only in a step that hands an accepted
\* UTF-8 payload to handle_packet; polls, drains that find no data or a decode
\* error, rejected packets and invalid payloads leave it as it was.
C17_FlagChangedOnlyByText ==
    [][should_write_newline' # should_write_newline
          => /\ pc = "drain"
             /\ log' # log
             /\ read_packet(decoder).res = "Ok"
             /\ read_packet(decoder).pkt.kind = "Instrumentation"
             /\ read_packet(decoder).pkt.port = itm_port
             /\ from_utf8(read_packet(decoder).pkt.payload)]_vars

C17_Witness ==
    /\ pc = "poll"
    /\ decoder = <<>>
    /\ arrivals = MaxArrivals
    /\ \E j, k \in DOMAIN log :
           /\ log[j].path = "text" /\ log[j].post # log[j].pre
           /\ log[k].path \in {"other", "invalid"} /\ log[k].pre = FALSE

\* C18: every timestamp in the output stands at the start of a line: it is the
\* first thing written or follows a line terminator.
C18_StampsAtLineStart ==
    \A k \in DOMAIN out :
        out[k] = TS => (k = 1 \/ out[k - 1] = Ch(LF))

C18_Witness ==
    /\ \E k \in DOMAIN out : k > 1 /\ out[k] = TS
    /\ \E j \in DOMAIN log : log[j].path \in {"other", "invalid"}
    /\ \E j \in DOMAIN log : log[j].path = "text"

\* C19: a drain always ends: once no more bytes arrive, finitely many
\* read_packet calls later the loop is back at poll.
C19_DrainTerminates == (pc = "drain") ~> (pc = "poll")

C19_Witness ==
    /\ pc = "poll"
    /\ edge = {}
    /\ decoder = <<>>
    /\ arrivals = MaxArrivals
    /\ Len(log) >= 2
====
